---- MODULE Spec2Model ----
(***************************************************************************)
(* Animated background visuals: GameOfLife (cellular automaton field),     *)
(* ParticleAttractor (gravitational particle field) and NetworkGraph       *)
(* (reactive node graph).  Each object owns a canvas, a requestAnimation-  *)
(* Frame loop handle and two window listeners.  A handler of the page runs *)
(* to completion on the single JavaScript thread, so every public method,  *)
(* frame callback and event dispatch is one atomic action here; `trace'    *)
(* logs the steps the last one performed, in program order.                *)
(***************************************************************************)
EXTENDS Integers, Sequences, FiniteSets, TLC

VARIABLES
    kind,       \* the class of the object: "gol", "pa" or "ng"
    obj,        \* "none" before `new', "live" once it returned, "failed" once it threw
    self,       \* the object's fields (width, height, grid or particles, animationId, ...)
    canvas,     \* the canvas element: [width, height]
    env,        \* [w, h]: the size resize() reads, parent.clientWidth/Height, or
                \* window.innerWidth/Height for a canvas without a parent
    pending,    \* host: handles of the frame callbacks requested and neither run nor cancelled
    rafSeq,     \* host: the last handle requestAnimationFrame returned
    listeners,  \* host: the window events ("resize", "mousemove") the object's handlers are registered for
    lastOp,     \* history: the operation that ran last
    trace       \* history: the steps that operation performed, in program order

vars == <<kind, obj, self, canvas, env, pending, rafSeq, listeners,
          lastOp, trace>>

(***************************************************************************)
(* Bounds of the model.                                                    *)
(***************************************************************************)
\* Containers are up to MaxSide cells wide and high (GameOfLife).
MaxSide == 2
\* Containers hold up to MaxParticles particles (ParticleAttractor).
MaxParticles == 1
\* The rule is checked on every grid of up to RuleSide columns and rows.
RuleSide == 3
\* The side of the square grid the glider runs on.
GliderSide == 20
\* The host hands out at most MaxFrames frame-request handles.
MaxFrames == 2

(***************************************************************************)
(* JavaScript values.                                                      *)
(***************************************************************************)
\* animationId is `number | null'; handles are positive, and the code only
\* tests the field for truthiness, which null and 0 fail alike.
NULL == 0

\* The result of `%' by zero.  Used as an array index it names no element.
NaN == 0 - 2147483647

\* JavaScript's a % b on integers: the sign follows the dividend.
JsRem(a, b) ==
    IF b = 0 THEN NaN
    ELSE IF a >= 0 THEN a % b
    ELSE 0 - ((0 - a) % b)

\* Mutant of CeilDiv: Math.floor where the code has Math.ceil.
CeilDivAsFloor(a, b) == a \div b

\* Math.floor(a / b) and Math.ceil(a / b) for an integer a and b > 0.
FloorDiv(a, b) == a \div b
CeilDiv(a, b) == 0 - ((0 - a) \div b)

cellSize == 8

(***************************************************************************)
(* Math.random().  The model draws from the quarters 0, 0.25, 0.5 and 0.75 *)
(* and names a draw by its numerator q in 0..3: they fall on every side of *)
(* the thresholds 0.15 and 0.3 the code compares a draw with, and an angle *)
(* q * (pi / 2) has an exact cosine and sine.  A stream is the sequence of *)
(* draws one handler sees, given as a finite pattern that repeats; draw    *)
(* number k (from 0) of a handler is Draw(stream, k).                      *)
(***************************************************************************)
Draw(stream, k) == stream[(k % Len(stream)) + 1]

Streams == {<<0>>, <<2>>, <<0, 3>>, <<1, 0>>}

\* Math.random() < 0.15 and Math.random() > 0.3 for the draw q / 4.
Below015(q) == q * 100 < 15 * 4
Above03(q) == q * 10 > 3 * 4

(***************************************************************************)
(* GameOfLife: the grid.                                                   *)
(***************************************************************************)
\* new Array(cols).fill(null).map(() => new Array(rows).fill(0))
createGrid(cs, rs) == [i \in 0..(cs - 1) |-> [j \in 0..(rs - 1) |-> 0]]

\* grid[i][j] = Math.random() < 0.15 ? 1 : 0, for i < cols, j < rows, in
\* that order.  Every call site runs createGrid first, so g has these cells.
seed(g, cs, rs, stream) ==
    [i \in DOMAIN g |-> [j \in DOMAIN g[i] |->
        IF i < cs /\ j < rs
        THEN (IF Below015(Draw(stream, i * rs + j)) THEN 1 ELSE 0)
        ELSE g[i][j]]]

\* this.grid[c][r]; NaN stands for a read that finds no element.
GridRead(g, c, r) ==
    IF c \in DOMAIN g
    THEN (IF r \in DOMAIN g[c] THEN g[c][r] ELSE NaN)
    ELSE NaN

\* The (x, y) pairs of update's two inner loops, in loop order, without (0, 0).
NeighborOffsets ==
    <<<<-1, -1>>, <<-1, 0>>, <<-1, 1>>, <<0, -1>>,
      <<0, 1>>, <<1, -1>>, <<1, 0>>, <<1, 1>>>>

\* Mutant of neighborIndex: the index is not brought into range.
neighborIndexUnwrapped(i, x, n) == i + x

\* (i + x + this.cols) % this.cols, and the same for rows.
neighborIndex(i, x, n) == JsRem(i + x + n, n)

\* The index pairs update reads for cell (i, j).
neighborCells(cs, rs, i, j) ==
    [k \in 1..8 |-> <<neighborIndex(i, NeighborOffsets[k][1], cs),
                      neighborIndex(j, NeighborOffsets[k][2], rs)>>]

\* neighbors += this.grid[col][row] over the eight offsets.
countNeighbors(g, cs, rs, i, j) ==
    LET at == neighborCells(cs, rs, i, j)
        rd == [k \in 1..8 |-> GridRead(g, at[k][1], at[k][2])]
    IN  IF \E k \in 1..8 : rd[k] = NaN THEN NaN
        ELSE rd[1] + rd[2] + rd[3] + rd[4] + rd[5] + rd[6] + rd[7] + rd[8]

\* Mutant of conwayRule: a dead cell comes alive with 3 or more neighbours.
conwayRuleBirthFrom3(state, neighbors) ==
    IF neighbors = NaN THEN state
    ELSE IF state = 0 /\ neighbors >= 3 THEN 1
    ELSE IF state = 1 /\ (neighbors < 2 \/ neighbors > 3) THEN 0
    ELSE state

\* Conway's rules as the if / else-if / else of update.
conwayRule(state, neighbors) ==
    IF neighbors = NaN THEN state
    ELSE IF state = 0 /\ neighbors = 3 THEN 1
    ELSE IF state = 1 /\ (neighbors < 2 \/ neighbors > 3) THEN 0
    ELSE state

\* Mutant of update: the cells are written into the grid that is being
\* read, in loop order, instead of into a copy.
RECURSIVE updateInPlaceFrom(_, _, _, _)
updateInPlaceFrom(g, cs, rs, n) ==
    IF n >= cs * rs THEN g
    ELSE LET i == n \div rs
             j == n % rs
         IN  updateInPlaceFrom(
                 [g EXCEPT ![i][j] = conwayRule(g[i][j], countNeighbors(g, cs, rs, i, j))],
                 cs, rs, n + 1)

updateInPlace(g, cs, rs) == updateInPlaceFrom(g, cs, rs, 0)

\* update(): next starts as a copy of the grid, every cell with i < cols and
\* j < rows is computed from this.grid, and next replaces the grid.
update(g, cs, rs) ==
    [i \in DOMAIN g |-> [j \in DOMAIN g[i] |->
        IF i < cs /\ j < rs
        THEN conwayRule(g[i][j], countNeighbors(g, cs, rs, i, j))
        ELSE g[i][j]]]

\* Every index pair update uses on a grid of cs columns and rs rows: the
\* cell it reads and writes, and the eight cells it reads around it.
updateAccesses(cs, rs) ==
    UNION {{<<i, j>>} \cup {neighborCells(cs, rs, i, j)[k] : k \in 1..8} :
           i \in 0..(cs - 1), j \in 0..(rs - 1)}

(***************************************************************************)
(* GameOfLife: the pointer handler.                                        *)
(***************************************************************************)
\* The (i, j) pairs of handleMouseMove's two loops, in loop order.
ClusterOffsets ==
    <<<<-1, -1>>, <<-1, 0>>, <<-1, 1>>, <<0, -1>>, <<0, 0>>,
      <<0, 1>>, <<1, -1>>, <<1, 0>>, <<1, 1>>>>

\* (col + i + this.cols) % this.cols, and the same for rows.
clusterIndex(col, i, n) == JsRem(col + i + n, n)

\* The pair (c, r) the k-th iteration computes.
clusterCell(col, row, cs, rs, k) ==
    <<clusterIndex(col, ClusterOffsets[k][1], cs),
      clusterIndex(row, ClusterOffsets[k][2], rs)>>

\* this.grid[c] && this.grid[c][r] !== undefined
hasCell(g, c, r) == GridRead(g, c, r) # NaN

\* The cells handleMouseMove sets to 1: those of the nine iterations whose
\* guard holds and whose draw exceeds 0.3.  Math.random() is called only
\* under the guard, so an iteration's draw is numbered by the guarded ones
\* before it.
clusterHits(g, cs, rs, col, row, stream) ==
    LET cell(k) == clusterCell(col, row, cs, rs, k)
        guarded(k) == hasCell(g, cell(k)[1], cell(k)[2])
        drawNo(k) == Cardinality({m \in 1..(k - 1) : guarded(m)})
    IN  {cell(k) : k \in {m \in 1..9 : guarded(m) /\ Above03(Draw(stream, drawNo(m)))}}

\* handleMouseMove(e) with x = e.clientX - rect.left, y = e.clientY - rect.top.
handleMouseMove(g, cs, rs, x, y, stream) ==
    LET col == FloorDiv(x, cellSize)
        row == FloorDiv(y, cellSize)
        hit == clusterHits(g, cs, rs, col, row, stream)
    IN  [c \in DOMAIN g |-> [r \in DOMAIN g[c] |->
            IF <<c, r>> \in hit THEN 1 ELSE g[c][r]]]

(***************************************************************************)
(* Numbers.  Positions, velocities and radii of particles and nodes are    *)
(* doubles in the code; the model keeps them as integers in units of       *)
(* 1 / Unit, every product rounded toward zero.                            *)
(***************************************************************************)
Unit == 4 * 4

Min(a, b) == IF a <= b THEN a ELSE b
Abs(a) == IF a >= 0 THEN a ELSE 0 - a

\* a / b rounded toward zero, b > 0.
TruncDiv(a, b) == IF a >= 0 THEN a \div b ELSE 0 - ((0 - a) \div b)

RECURSIVE SqrtSearch(_, _, _)
SqrtSearch(n, lo, hi) ==
    IF lo = hi THEN lo
    ELSE LET mid == (lo + hi + 1) \div 2
         IN  IF mid * mid <= n THEN SqrtSearch(n, mid, hi)
             ELSE SqrtSearch(n, lo, mid - 1)

\* Math.sqrt(n), rounded down.
ISqrt(n) == SqrtSearch(n, 0, 46340)

\* Math.cos and Math.sin of the angle q * (pi / 2).
Cos4(q) == <<1, 0, -1, 0>>[q + 1]
Sin4(q) == <<0, 1, 0, -1>>[q + 1]

(***************************************************************************)
(* ParticleAttractor: particles.                                           *)
(***************************************************************************)
\* Particle.reset(w, h) with the draws qa (angle), qr (radius), qs (speed).
particleReset(p, w, h, qa, qr, qs) ==
    LET r == (Min(w, h) * Unit) \div 2 + (qr * 50 * Unit) \div 4
        speed == (qs * 2 * Unit) \div 4 + Unit
    IN  [p EXCEPT !.x = (w * Unit) \div 2 + Cos4(qa) * r,
                  !.y = (h * Unit) \div 2 + Sin4(qa) * r,
                  !.vx = (0 - Sin4(qa)) * speed,
                  !.vy = Cos4(qa) * speed]

\* new Particle(w, h): six draws, numbered from k.
newParticle(w, h, stream, k) ==
    LET p0 == [x |-> 0, y |-> 0, vx |-> 0, vy |-> 0,
               size |-> (Draw(stream, k) * 2 * Unit) \div 4 + Unit]
        p1 == particleReset(p0, w, h, Draw(stream, k + 1), Draw(stream, k + 2),
                            Draw(stream, k + 3))
    IN  [p1 EXCEPT !.x = (Draw(stream, k + 4) * w * Unit) \div 4,
                   !.y = (Draw(stream, k + 5) * h * Unit) \div 4]

\* ParticleAttractor.createParticles()
createParticles(count, w, h, stream, k) ==
    [n \in 1..count |-> newParticle(w, h, stream, k + 6 * (n - 1))]

\* Mutant of particleCountFor: the count is not capped.
particleCountUncapped(w, h) == (w * h) \div 2000

\* Math.min(600, Math.floor(area / 2000))
particleCountFor(w, h) == Min(600, (w * h) \div 2000)

\* The body of update's forEach for one particle, in four parts.  k is the
\* number of the next draw; the result is the particle and the number of
\* the draw after it.

\* Gravity toward the centre, for the offset (dx, dy) to it at distance dist:
\* the amount added to vx and to vy.  cos(atan2(dy, dx)) is dx / dist and
\* sin is dy / dist; atan2(0, 0) is 0.
gravity(dx, dy, dist) ==
    LET force == (1000 * Unit * Unit) \div (dist + 50 * Unit)
    IN  IF dx = 0 /\ dy = 0 THEN <<force \div 2, 0>>
        ELSE <<TruncDiv(dx * force, 2 * dist), TruncDiv(dy * force, 2 * dist)>>

\* mDist < 200 for the offset (mdx, mdy) to the pointer.
nearPointer(mdx, mdy) ==
    /\ Abs(mdx) < 200 * Unit
    /\ Abs(mdy) < 200 * Unit
    /\ mdx * mdx + mdy * mdy < (200 * Unit) * (200 * Unit)

\* Pointer repulsion: the amount subtracted from vx and from vy when
\* mDist < 200 and mDist is not 0.
repulsion(mdx, mdy, mDist) ==
    <<TruncDiv(mdx * ((200 * Unit - mDist) \div 20), mDist),
      TruncDiv(mdy * ((200 * Unit - mDist) \div 20), mDist)>>

\* Mutant of particleMove: no friction.
particleMoveFrictionless(p, vx, vy) ==
    [p EXCEPT !.vx = vx, !.vy = vy, !.x = p.x + vx, !.y = p.y + vy]

\* Friction and the move, for the velocity (vx, vy) before friction.
particleMove(p, vx, vy) ==
    [p EXCEPT !.vx = TruncDiv(vx * 95, 100),
              !.vy = TruncDiv(vy * 95, 100),
              !.x = p.x + TruncDiv(vx * 95, 100),
              !.y = p.y + TruncDiv(vy * 95, 100)]

\* Mutant of lostInSpace: only x is tested.
lostInSpaceOnX(p, w, h) == p.x < (0 - 200) * Unit \/ p.x > (w + 200) * Unit

\* p.x < -200 || p.x > width + 200 || p.y < -200 || p.y > height + 200
lostInSpace(p, w, h) ==
    \/ p.x < (0 - 200) * Unit
    \/ p.x > (w + 200) * Unit
    \/ p.y < (0 - 200) * Unit
    \/ p.y > (h + 200) * Unit

\* The two resets that end the body: `horizon' is dist < 10, taken before
\* the move.
particleRespawn(p, w, h, horizon, stream, k) ==
    IF horizon
    THEN (IF lostInSpace(particleReset(p, w, h, Draw(stream, k), Draw(stream, k + 1),
                                       Draw(stream, k + 2)), w, h)
          THEN [p |-> particleReset(p, w, h, Draw(stream, k + 3),
                                    Draw(stream, k + 4), Draw(stream, k + 5)),
                k |-> k + 6]
          ELSE [p |-> particleReset(p, w, h, Draw(stream, k), Draw(stream, k + 1),
                                    Draw(stream, k + 2)),
                k |-> k + 3])
    ELSE IF lostInSpace(p, w, h)
    THEN [p |-> particleReset(p, w, h, Draw(stream, k), Draw(stream, k + 1),
                              Draw(stream, k + 2)),
          k |-> k + 3]
    ELSE [p |-> p, k |-> k]

\* The particle after forces, friction and the move, before the resets,
\* for the offsets (dx, dy) to the centre and (mdx, mdy) to the pointer,
\* not both 0.
particleMoved(p, dx, dy, mdx, mdy) ==
    particleMove(p,
        p.vx + gravity(dx, dy, ISqrt(dx * dx + dy * dy))[1]
             - (IF nearPointer(mdx, mdy)
                THEN repulsion(mdx, mdy, ISqrt(mdx * mdx + mdy * mdy))[1]
                ELSE 0),
        p.vy + gravity(dx, dy, ISqrt(dx * dx + dy * dy))[2]
             - (IF nearPointer(mdx, mdy)
                THEN repulsion(mdx, mdy, ISqrt(mdx * mdx + mdy * mdy))[2]
                ELSE 0))

\* dist < 10 for the offset (dx, dy) to the centre.
eventHorizon(dx, dy) == dx * dx + dy * dy < (10 * Unit) * (10 * Unit)

\* The body for the offsets (dx, dy) to the centre and (mdx, mdy) to the
\* pointer.  A particle exactly at the pointer divides 0 by 0: its velocity
\* and position become NaN.  Within the event horizon reset() then
\* overwrites them; otherwise they stay, and no comparison holds of them
\* again.
particleForces(p, w, h, dx, dy, mdx, mdy, stream, k) ==
    IF mdx = 0 /\ mdy = 0
    THEN (IF eventHorizon(dx, dy)
          THEN particleRespawn(p, w, h, TRUE, stream, k)
          ELSE [p |-> [p EXCEPT !.x = NaN, !.y = NaN, !.vx = NaN, !.vy = NaN],
                k |-> k])
    ELSE particleRespawn(particleMoved(p, dx, dy, mdx, mdy), w, h,
                         eventHorizon(dx, dy), stream, k)

particleStep(p, w, h, mouse, stream, k) ==
    IF p.x = NaN THEN [p |-> p, k |-> k]
    ELSE particleForces(p, w, h, (w * Unit) \div 2 - p.x, (h * Unit) \div 2 - p.y,
                        mouse.x * Unit - p.x, mouse.y * Unit - p.y, stream, k)

\* ParticleAttractor.update(): the particles in order, each taking its
\* draws after those of the ones before it.  updateParticlesIn does the
\* particles lo..hi, the first half and then the second, and gives the
\* particles and the number of the next draw, which is never less than k:
\* the test of it has the first half evaluated before the second begins.
RECURSIVE updateParticlesIn(_, _, _, _, _, _, _, _)
updateParticlesIn(ps, lo, hi, w, h, mouse, stream, k) ==
    IF lo > hi THEN [ps |-> ps, k |-> k]
    ELSE IF lo = hi
    THEN LET r == particleStep(ps[lo], w, h, mouse, stream, k)
         IN  [ps |-> [ps EXCEPT ![lo] = r.p], k |-> r.k]
    ELSE LET mid == (lo + hi) \div 2
             first == updateParticlesIn(ps, lo, mid, w, h, mouse, stream, k)
         IN  IF first.k < k THEN first
             ELSE updateParticlesIn(first.ps, mid + 1, hi, w, h, mouse, stream,
                                    first.k)

updateParticles(ps, w, h, mouse, stream, k) ==
    updateParticlesIn(ps, 1, Len(ps), w, h, mouse, stream, k).ps

(***************************************************************************)
(* NetworkGraph: nodes.                                                    *)
(***************************************************************************)
\* new Node(w, h): five draws, numbered from k.
newNode(w, h, stream, k) ==
    [x |-> (Draw(stream, k) * w * Unit) \div 4,
     y |-> (Draw(stream, k + 1) * h * Unit) \div 4,
     vx |-> ((Draw(stream, k + 2) - 2) * Unit) \div 8,
     vy |-> ((Draw(stream, k + 3) - 2) * Unit) \div 8,
     size |-> (Draw(stream, k + 4) * 2 * Unit) \div 4 + (3 * Unit) \div 2]

\* NetworkGraph.createParticles()
createNodes(count, w, h, stream, k) ==
    [n \in 1..count |-> newNode(w, h, stream, k + 5 * (n - 1))]

\* Mutant of nodeCountFor: the count is not raised to 20.
nodeCountNoMinimum(w, h) ==
    IF w < 768 THEN Min(50, (w * h) \div 10000) ELSE Min(150, (w * h) \div 6000)

\* The particle count resize computes: the branch on isMobile, then the
\* floor of 20.
nodeCountFor(w, h) ==
    LET area == w * h
        n == IF w < 768 THEN Min(50, area \div 10000) ELSE Min(150, area \div 6000)
    IN  IF n < 20 THEN 20 ELSE n

\* The connection distance resize sets.
connectionDistanceFor(w) == IF w < 768 THEN 120 ELSE 180

\* Mutant of nodeStep: the velocity is inverted at the left and top edges
\* only.
nodeStepOneSided(p, w, h) ==
    LET x == p.x + p.vx
        y == p.y + p.vy
    IN  [p EXCEPT !.x = x,
                  !.y = y,
                  !.vx = IF x < 0 THEN 0 - p.vx ELSE p.vx,
                  !.vy = IF y < 0 THEN 0 - p.vy ELSE p.vy]

\* The body of NetworkGraph.update's forEach for one node.
nodeStep(p, w, h) ==
    LET x == p.x + p.vx
        y == p.y + p.vy
    IN  [p EXCEPT !.x = x,
                  !.y = y,
                  !.vx = IF x < 0 \/ x > w * Unit THEN 0 - p.vx ELSE p.vx,
                  !.vy = IF y < 0 \/ y > h * Unit THEN 0 - p.vy ELSE p.vy]

\* NetworkGraph.update()
updateNodes(ps, w, h) == [n \in DOMAIN ps |-> nodeStep(ps[n], w, h)]

(***************************************************************************)
(* The three classes: fields and methods.  A method is an operator from    *)
(* the fields s of an object of class k to its fields afterwards.          *)
(***************************************************************************)
Kinds == {"gol", "pa", "ng"}

\* Mutant of DefaultSelf: the pointer of a ParticleAttractor and of a
\* NetworkGraph starts at the origin of the surface.
DefaultSelfPointerAtOrigin(k) ==
    CASE k = "gol" -> [width |-> 0, height |-> 0, cols |-> 0, rows |-> 0,
                       grid |-> <<>>, animationId |-> NULL]
      [] k = "pa"  -> [width |-> 0, height |-> 0, particles |-> <<>>,
                       particleCount |-> 200,
                       mouse |-> [x |-> 0, y |-> 0],
                       animationId |-> NULL]
      [] k = "ng"  -> [width |-> 0, height |-> 0, particles |-> <<>>,
                       particleCount |-> 60,
                       mouse |-> [x |-> 0, y |-> 0],
                       connectionDistance |-> 150, animationId |-> NULL]

\* The field initialisers.  width and height have none: 0 stands for unset.
DefaultSelf(k) ==
    CASE k = "gol" -> [width |-> 0, height |-> 0, cols |-> 0, rows |-> 0,
                       grid |-> <<>>, animationId |-> NULL]
      [] k = "pa"  -> [width |-> 0, height |-> 0, particles |-> <<>>,
                       particleCount |-> 200,
                       mouse |-> [x |-> 0 - 1000, y |-> 0 - 1000],
                       animationId |-> NULL]
      [] k = "ng"  -> [width |-> 0, height |-> 0, particles |-> <<>>,
                       particleCount |-> 60,
                       mouse |-> [x |-> 0 - 1000, y |-> 0 - 1000],
                       connectionDistance |-> 150, animationId |-> NULL]

\* What simulate writes and render reads: the grid, or the particles or nodes.
population(s, k) == IF k = "gol" THEN s.grid ELSE s.particles

\* Mutant of resize: a GameOfLife keeps the grid it has when the numbers
\* of columns and rows do not change, and a population is kept likewise.
resizeKeepsFitting(s, k, w, h, stream) ==
    CASE k = "gol" ->
           LET cs == CeilDiv(w, cellSize)
               rs == CeilDiv(h, cellSize)
           IN  [s EXCEPT !.width = w, !.height = h, !.cols = cs, !.rows = rs,
                         !.grid = IF cs = s.cols /\ rs = s.rows /\ s.grid # <<>>
                                  THEN s.grid
                                  ELSE seed(createGrid(cs, rs), cs, rs, stream)]
      [] k = "pa" ->
           LET n == particleCountFor(w, h)
           IN  [s EXCEPT !.width = w, !.height = h, !.particleCount = n,
                         !.particles = IF n = Len(s.particles) THEN s.particles
                                       ELSE createParticles(n, w, h, stream, 0)]
      [] k = "ng" ->
           LET n == nodeCountFor(w, h)
           IN  [s EXCEPT !.width = w, !.height = h, !.particleCount = n,
                         !.connectionDistance = connectionDistanceFor(w),
                         !.particles = IF n = Len(s.particles) THEN s.particles
                                       ELSE createNodes(n, w, h, stream, 0)]

\* resize(), after canvas.width and canvas.height were set to w and h.
resize(s, k, w, h, stream) ==
    CASE k = "gol" ->
           LET cs == CeilDiv(w, cellSize)
               rs == CeilDiv(h, cellSize)
           IN  [s EXCEPT !.width = w, !.height = h, !.cols = cs, !.rows = rs,
                         !.grid = seed(createGrid(cs, rs), cs, rs, stream)]
      [] k = "pa" ->
           LET n == particleCountFor(w, h)
           IN  [s EXCEPT !.width = w, !.height = h, !.particleCount = n,
                         !.particles = createParticles(n, w, h, stream, 0)]
      [] k = "ng" ->
           LET n == nodeCountFor(w, h)
           IN  [s EXCEPT !.width = w, !.height = h, !.particleCount = n,
                         !.connectionDistance = connectionDistanceFor(w),
                         !.particles = createNodes(n, w, h, stream, 0)]

\* The draws resize() has taken.
resizeDraws(s, k) ==
    CASE k = "gol" -> s.cols * s.rows
      [] k = "pa"  -> 6 * s.particleCount
      [] k = "ng"  -> 5 * s.particleCount

\* update(), its draws numbered from k0.
simulate(s, k, stream, k0) ==
    CASE k = "gol" -> [s EXCEPT !.grid = update(s.grid, s.cols, s.rows)]
      [] k = "pa"  -> [s EXCEPT !.particles =
                          updateParticles(s.particles, s.width, s.height,
                                          s.mouse, stream, k0)]
      [] k = "ng"  -> [s EXCEPT !.particles =
                          updateNodes(s.particles, s.width, s.height)]

Step(name, value) == [s |-> name, v |-> value]

\* Mutant of loop: the handle requestAnimationFrame returns is not stored.
loopDropsHandle(s, k, stream, k0, id) ==
    LET s1 == simulate(s, k, stream, k0)
    IN  [self |-> s1,
         steps |-> <<Step("update", <<population(s, k), population(s1, k)>>),
                     Step("draw", population(s1, k)),
                     Step("requestAnimationFrame", id)>>,
         requested |-> {id}]

\* Mutant of loop: draw() is called before update().
loopDrawsFirst(s, k, stream, k0, id) ==
    LET s1 == simulate(s, k, stream, k0)
    IN  [self |-> [s1 EXCEPT !.animationId = id],
         steps |-> <<Step("draw", population(s, k)),
                     Step("update", <<population(s, k), population(s1, k)>>),
                     Step("requestAnimationFrame", id)>>,
         requested |-> {id}]

\* loop(): update, draw, then the request whose handle the host gives as id.
\* Gives the fields afterwards and the steps taken.
loop(s, k, stream, k0, id) ==
    LET s1 == simulate(s, k, stream, k0)
    IN  [self |-> [s1 EXCEPT !.animationId = id],
         steps |-> <<Step("update", <<population(s, k), population(s1, k)>>),
                     Step("draw", population(s1, k)),
                     Step("requestAnimationFrame", id)>>,
         requested |-> {id}]

\* Mutant of start: loop() runs whether or not a request is outstanding.
startUnguarded(s, k, stream, k0, id) ==
    [self |-> [simulate(s, k, stream, k0) EXCEPT !.animationId = id],
     steps |-> <<Step("update", <<population(s, k),
                                  population(simulate(s, k, stream, k0), k)>>),
                 Step("draw", population(simulate(s, k, stream, k0), k)),
                 Step("requestAnimationFrame", id)>>,
     requested |-> {id}]

\* start(): runs loop() if animationId is falsy.
start(s, k, stream, k0, id) ==
    IF s.animationId = NULL
    THEN loop(s, k, stream, k0, id)
    ELSE [self |-> s, steps |-> <<>>, requested |-> {}]

\* Mutant of stop: the field is cleared and the request is not cancelled.
stopKeepsRequest(s) ==
    IF s.animationId # NULL
    THEN [self |-> [s EXCEPT !.animationId = NULL], steps |-> <<>>, cancelled |-> {}]
    ELSE [self |-> s, steps |-> <<>>, cancelled |-> {}]

\* Mutant of stop: the field is not tested before the request is cancelled.
stopUnguarded(s) ==
    [self |-> [s EXCEPT !.animationId = NULL],
     steps |-> <<Step("cancelAnimationFrame", s.animationId)>>,
     cancelled |-> {s.animationId}]

\* stop(): cancels the request animationId names and clears the field.
stop(s) ==
    IF s.animationId # NULL
    THEN [self |-> [s EXCEPT !.animationId = NULL],
          steps |-> <<Step("cancelAnimationFrame", s.animationId)>>,
          cancelled |-> {s.animationId}]
    ELSE [self |-> s, steps |-> <<>>, cancelled |-> {}]

\* init() up to start(): GameOfLife allocates and seeds the grid for the
\* cols and rows it has; the other two call resize().  e is the size
\* resize() reads, cv the canvas.  Gives the fields, the canvas and the
\* draws taken.
initSetup(s, k, cv, e, stream) ==
    IF k = "gol"
    THEN [self |-> [s EXCEPT !.grid = seed(createGrid(s.cols, s.rows),
                                           s.cols, s.rows, stream)],
          canvas |-> cv,
          steps |-> <<Step("createGrid", <<s.cols, s.rows>>),
                      Step("seed", <<s.cols, s.rows>>)>>]
    ELSE [self |-> resize(s, k, e.w, e.h, stream),
          canvas |-> [width |-> e.w, height |-> e.h],
          steps |-> <<Step("resize", <<e.w, e.h>>)>>]

\* The window events init() registers handlers for and destroy() removes
\* them from.  The handlers are bound once, in the constructor, so adding
\* one twice registers it once and removing it finds it.
HandledEvents == {"resize", "mousemove"}

initListeners(ls) == ls \cup HandledEvents
destroyListeners(ls) == ls \ HandledEvents

\* Mutant of construct: the context is tested after resize() instead of
\* before it.
constructResizesFirst(s, k, cv, e, ok, stream) ==
    [obj |-> IF ok THEN "live" ELSE "failed",
     self |-> resize([s EXCEPT !.width = cv.width, !.height = cv.height],
                     k, e.w, e.h, stream),
     canvas |-> [width |-> e.w, height |-> e.h],
     steps |-> IF ok
               THEN <<Step("getContext", TRUE), Step("resize", <<e.w, e.h>>)>>
               ELSE <<Step("getContext", FALSE), Step("resize", <<e.w, e.h>>),
                      Step("throw", "Could not get canvas context")>>]

\* The constructor.  ok: canvas.getContext('2d') gave a context.
construct(s, k, cv, e, ok, stream) ==
    IF ~ok
    THEN [obj |-> "failed", self |-> s, canvas |-> cv,
          steps |-> <<Step("getContext", FALSE), Step("throw", "Could not get canvas context")>>]
    ELSE [obj |-> "live",
          self |-> resize([s EXCEPT !.width = cv.width, !.height = cv.height],
                          k, e.w, e.h, stream),
          canvas |-> [width |-> e.w, height |-> e.h],
          steps |-> <<Step("getContext", TRUE), Step("resize", <<e.w, e.h>>)>>]

\* handleMouseMove(e) of each class, x and y relative to the canvas.
pointerMove(s, k, x, y, stream) ==
    IF k = "gol"
    THEN [s EXCEPT !.grid = handleMouseMove(s.grid, s.cols, s.rows, x, y, stream)]
    ELSE [s EXCEPT !.mouse = [x |-> x, y |-> y]]

(***************************************************************************)
(* The environment: container sizes and pointer positions.                 *)
(***************************************************************************)
\* Container sizes.  GameOfLife: MaxSide - 1 whole cells one way and one
\* unit more (which takes MaxSide cells) the other way, and sizes with no
\* width or no height.  ParticleAttractor: room for 0..MaxParticles
\* particles.  NetworkGraph: an empty one, a narrow one and a wide one.
EnvSizes(k) ==
    CASE k = "gol" ->
           LET whole == cellSize * (MaxSide - 1)
           IN  {[w |-> 0, h |-> 0], [w |-> 0, h |-> whole + 1],
                [w |-> whole + 1, h |-> 0],
                [w |-> whole, h |-> whole + 1], [w |-> whole + 1, h |-> whole]}
      [] k = "pa" -> {[w |-> 50, h |-> 40 * n] : n \in 0..MaxParticles}
      [] k = "ng" -> {[w |-> 0, h |-> 0], [w |-> 100, h |-> 100],
                      [w |-> 800, h |-> 150]}

\* Pointer positions relative to the canvas, (e.clientX - rect.left,
\* e.clientY - rect.top): left of and above it, on it, right of and below it.
PointerPoints(k) ==
    IF k = "gol"
    THEN {<<0 - 17, 0 - 17>>, <<0, 9>>, <<9, 0 - 1>>, <<20, 20>>}
    ELSE {<<0 - 30, 0 - 30>>, <<25, 20>>, <<300, 10>>}

\* The streams that make a difference to a frame: only ParticleAttractor's
\* update draws.
FrameStreams(k) == IF k = "pa" THEN Streams ELSE {<<0>>}

(***************************************************************************)
(* The state before `new'.                                                 *)
(***************************************************************************)
Init ==
    /\ kind \in Kinds
    /\ obj = "none"
    /\ self = DefaultSelf(kind)
    /\ canvas = [width |-> 300, height |-> 150]
    /\ env \in EnvSizes(kind)
    /\ pending = {}
    /\ rafSeq = 0
    /\ listeners = {}
    /\ lastOp = "none"
    /\ trace = <<>>

(***************************************************************************)
(* Operations.                                                             *)
(***************************************************************************)
\* new GameOfLife(canvas, color), new ParticleAttractor(...), new NetworkGraph(...)
Construct ==
    /\ obj = "none"
    /\ \E ok \in BOOLEAN, stream \in Streams :
         LET r == construct(self, kind, canvas, env, ok, stream)
         IN  /\ obj' = r.obj
             /\ self' = r.self
             /\ canvas' = r.canvas
             /\ trace' = r.steps
    /\ lastOp' = "construct"
    /\ UNCHANGED <<kind, env, pending, rafSeq, listeners>>

\* Mutant of Attach: init() registers the listeners before it sets up and
\* starts.
AttachListensFirst ==
    /\ obj = "live"
    /\ self.animationId = NULL => rafSeq < MaxFrames
    /\ \E stream \in Streams :
         LET a == initSetup(self, kind, canvas, env, stream)
             b == start(a.self, kind, stream, resizeDraws(a.self, kind), rafSeq + 1)
         IN  /\ self' = b.self
             /\ canvas' = a.canvas
             /\ pending' = pending \cup b.requested
             /\ rafSeq' = IF b.requested = {} THEN rafSeq ELSE rafSeq + 1
             /\ trace' = <<Step("addEventListener", "resize"),
                           Step("addEventListener", "mousemove")>>
                           \o a.steps \o b.steps
    /\ listeners' = initListeners(listeners)
    /\ lastOp' = "attach"
    /\ UNCHANGED <<kind, obj, env>>

\* init()
Attach ==
    /\ obj = "live"
    /\ self.animationId = NULL => rafSeq < MaxFrames
    /\ \E stream \in Streams :
         LET a == initSetup(self, kind, canvas, env, stream)
             b == start(a.self, kind, stream, resizeDraws(a.self, kind), rafSeq + 1)
         IN  /\ self' = b.self
             /\ canvas' = a.canvas
             /\ pending' = pending \cup b.requested
             /\ rafSeq' = IF b.requested = {} THEN rafSeq ELSE rafSeq + 1
             /\ trace' = a.steps \o b.steps
                           \o <<Step("addEventListener", "resize"),
                                Step("addEventListener", "mousemove")>>
    /\ listeners' = initListeners(listeners)
    /\ lastOp' = "attach"
    /\ UNCHANGED <<kind, obj, env>>

\* destroy()
Detach ==
    /\ obj = "live"
    /\ LET r == stop(self)
       IN  /\ self' = r.self
           /\ pending' = pending \ r.cancelled
           /\ trace' = r.steps \o <<Step("removeEventListener", "resize"),
                                    Step("removeEventListener", "mousemove")>>
    /\ listeners' = destroyListeners(listeners)
    /\ lastOp' = "detach"
    /\ UNCHANGED <<kind, obj, canvas, env, rafSeq>>

\* start()
Start ==
    /\ obj = "live"
    /\ self.animationId = NULL => rafSeq < MaxFrames
    /\ \E stream \in FrameStreams(kind) :
         LET r == start(self, kind, stream, 0, rafSeq + 1)
         IN  /\ self' = r.self
             /\ pending' = pending \cup r.requested
             /\ rafSeq' = IF r.requested = {} THEN rafSeq ELSE rafSeq + 1
             /\ trace' = r.steps
    /\ lastOp' = "start"
    /\ UNCHANGED <<kind, obj, canvas, env, listeners>>

\* stop()
Stop ==
    /\ obj = "live"
    /\ LET r == stop(self)
       IN  /\ self' = r.self
           /\ pending' = pending \ r.cancelled
           /\ trace' = r.steps
    /\ lastOp' = "stop"
    /\ UNCHANGED <<kind, obj, canvas, env, rafSeq, listeners>>

\* The host runs a pending frame callback: loop().  n bounds the handles
\* requestAnimationFrame has given out.
FrameUpTo(n) ==
    /\ rafSeq < n
    /\ \E id \in pending, stream \in FrameStreams(kind) :
         LET r == loop(self, kind, stream, 0, rafSeq + 1)
         IN  /\ self' = r.self
             /\ pending' = (pending \ {id}) \cup r.requested
             /\ trace' = <<Step("callback", id)>> \o r.steps
    /\ rafSeq' = rafSeq + 1
    /\ lastOp' = "frame"
    /\ UNCHANGED <<kind, obj, canvas, env, listeners>>

Frame == FrameUpTo(MaxFrames)

\* Mutant of ResizeEventTo: resize() returns at once while the loop is
\* stopped.
ResizeEventWhileRunning(sizes) ==
    /\ \E e \in sizes, stream \in Streams :
         /\ env' = e
         /\ IF "resize" \in listeners /\ self.animationId # NULL
            THEN /\ self' = resize(self, kind, e.w, e.h, stream)
                 /\ canvas' = [width |-> e.w, height |-> e.h]
                 /\ trace' = <<Step("resize", <<e.w, e.h>>)>>
            ELSE /\ UNCHANGED <<self, canvas>>
                 /\ trace' = <<>>
    /\ lastOp' = "resizeEvent"
    /\ UNCHANGED <<kind, obj, pending, rafSeq, listeners>>

\* The container takes a size e of `sizes' and the window dispatches
\* 'resize': resize() runs if it is registered.
ResizeEventTo(sizes) ==
    /\ \E e \in sizes, stream \in Streams :
         /\ env' = e
         /\ IF "resize" \in listeners
            THEN /\ self' = resize(self, kind, e.w, e.h, stream)
                 /\ canvas' = [width |-> e.w, height |-> e.h]
                 /\ trace' = <<Step("resize", <<e.w, e.h>>)>>
            ELSE /\ UNCHANGED <<self, canvas>>
                 /\ trace' = <<>>
    /\ lastOp' = "resizeEvent"
    /\ UNCHANGED <<kind, obj, pending, rafSeq, listeners>>

\* The window dispatches 'mousemove' with the pointer at a point of
\* `points': handleMouseMove() runs if it is registered.
MouseMoveEventAt(points) ==
    /\ \E pt \in points, stream \in Streams :
         IF "mousemove" \in listeners
         THEN /\ self' = pointerMove(self, kind, pt[1], pt[2], stream)
              /\ trace' = <<Step("handleMouseMove", pt)>>
         ELSE /\ UNCHANGED self
              /\ trace' = <<>>
    /\ lastOp' = "mouseMoveEvent"
    /\ UNCHANGED <<kind, obj, canvas, env, pending, rafSeq, listeners>>

\* The container takes any of its sizes, or keeps the one it has.
ResizeEvent == ResizeEventTo(EnvSizes(kind) \cup {env})

MouseMoveEvent == MouseMoveEventAt(PointerPoints(kind))

Next ==
    \/ Construct
    \/ Attach
    \/ Detach
    \/ Start
    \/ Stop
    \/ Frame
    \/ ResizeEvent
    \/ MouseMoveEvent

Spec == Init /\ [][Next]_vars

(***************************************************************************)
(* Properties of the life cycle.                                           *)
(***************************************************************************)
\* The names of the steps in a trace.
StepNames(tr) == {tr[i].s : i \in 1..Len(tr)}

\* Steps that simulate, render, schedule or handle an event.
WorkSteps == {"update", "draw", "requestAnimationFrame", "resize", "handleMouseMove"}

\* No callback pending, no handle, no listener.
Quiescent == pending = {} /\ self.animationId = NULL /\ listeners = {}

\* C1: when detach() was the last operation, no frame callback is pending,
\* the handle is null and neither listener is registered; and from a state
\* like that, every operation other than start() and attach() runs no
\* simulate or render step and no handler, and changes neither the object
\* nor the host's registrations.
C1_DetachQuiesces ==
    /\ [](lastOp = "detach" => Quiescent)
    /\ [][(obj = "live" /\ Quiescent /\ lastOp' \notin {"start", "attach"})
            => /\ StepNames(trace') \cap WorkSteps = {}
               /\ UNCHANGED <<self, canvas, pending, rafSeq, listeners>>]_vars

\* C1 witness: detach() ran on an object that was attached and running, and
\* found a callback to cancel.
C1_Witness ==
    /\ lastOp = "detach"
    /\ "cancelAnimationFrame" \in StepNames(trace)
    /\ rafSeq > 1

\* C2: at most one frame callback is pending, and the handle is non-null
\* exactly when one is, which is then the one it names.
C2_OneLoop ==
    /\ Cardinality(pending) <= 1
    /\ (self.animationId # NULL) <=> (pending # {})
    /\ pending # {} => pending = {self.animationId}

\* C2 witness: a frame callback ran and requested the next one.
C2_Witness ==
    /\ lastOp = "frame"
    /\ pending = {self.animationId}
    /\ self.animationId = 2

\* C3: start() on a running loop and stop() on a stopped one take no step
\* and change nothing.
C3_StartStopNoOp ==
    /\ [][(lastOp' = "start" /\ self.animationId # NULL)
            => (trace' = <<>> /\ UNCHANGED <<obj, self, canvas, pending, rafSeq, listeners>>)]_vars
    /\ [][(lastOp' = "stop" /\ self.animationId = NULL)
            => (trace' = <<>> /\ UNCHANGED <<obj, self, canvas, pending, rafSeq, listeners>>)]_vars

\* C3 witness: start() was called while the loop was running.
C3_Witness ==
    /\ lastOp = "start"
    /\ trace = <<>>
    /\ self.animationId # NULL
    /\ listeners # {}

\* The frames of a trace: the positions of its update steps.
UpdateAt(tr) == {i \in 1..Len(tr) : tr[i].s = "update"}

\* C4: in every operation that runs a frame, update is followed at once by
\* a draw that reads the population update produced, and that by the
\* request for the next frame; nothing is drawn otherwise, an operation
\* runs at most one frame, no handler step follows the update, and the
\* population is left as update produced it.  The callback the host runs is
\* the one the frame before requested.
C4_SimulateThenRender ==
    /\ [](/\ Cardinality(UpdateAt(trace)) <= 1
          /\ \A i \in 1..Len(trace) :
               /\ trace[i].s = "update" =>
                    /\ i + 2 = Len(trace) \/ lastOp = "attach"
                    /\ i + 2 <= Len(trace)
                    /\ trace[i + 1].s = "draw"
                    /\ trace[i + 1].v = trace[i].v[2]
                    /\ trace[i + 2].s = "requestAnimationFrame"
                    /\ \A j \in (i + 1)..Len(trace) :
                         trace[j].s \notin {"resize", "handleMouseMove", "seed", "createGrid"}
                    /\ population(self, kind) = trace[i].v[2]
               /\ trace[i].s = "draw" => (i > 1 /\ trace[i - 1].s = "update"))
    /\ [][lastOp' = "frame"
            => /\ trace'[1] = Step("callback", self.animationId)
               /\ trace'[2].s = "update"
               /\ trace'[2].v[1] = population(self, kind)]_vars

\* C4 witness: the host ran a frame of a population that the frame changed.
C4_Witness ==
    /\ lastOp = "frame"
    /\ Len(trace) = 4
    /\ trace[2].v[1] # trace[2].v[2]

\* C7: a constructed GameOfLife has a grid of exactly cols columns of rows
\* cells each, where cols and rows are the least numbers of cells that
\* cover width and height.
C7_GridMatchesSurface ==
    (obj = "live" /\ kind = "gol") =>
        /\ DOMAIN self.grid = 0..(self.cols - 1)
        /\ \A i \in DOMAIN self.grid : DOMAIN self.grid[i] = 0..(self.rows - 1)
        /\ self.cols * cellSize >= self.width
        /\ (self.cols - 1) * cellSize < self.width
        /\ self.rows * cellSize >= self.height
        /\ (self.rows - 1) * cellSize < self.height

\* C7 witness: a resize event gave an attached GameOfLife a width that is
\* not a whole number of cells.
C7_Witness ==
    /\ kind = "gol"
    /\ lastOp = "resizeEvent"
    /\ "resize" \in StepNames(trace)
    /\ self.width % cellSize # 0
    /\ self.height > 0

\* C10: when no 2D context is obtained, construction throws, and leaves the
\* canvas size, the fields, the host's callbacks and listeners as they were:
\* no grid or population, no callback, no listener.
C10_ConstructFails ==
    /\ [][(lastOp' = "construct" /\ trace'[1] = Step("getContext", FALSE))
            => /\ obj' = "failed"
               /\ "throw" \in StepNames(trace')
               /\ "resize" \notin StepNames(trace')
               /\ UNCHANGED <<self, canvas, pending, rafSeq, listeners>>]_vars
    /\ [](obj = "failed"
            => /\ population(self, kind) = <<>>
               /\ self.animationId = NULL
               /\ pending = {}
               /\ listeners = {}
               /\ canvas = [width |-> 300, height |-> 150])

\* C10 witness: construction failed, and a resize event was dispatched
\* after it.
C10_Witness ==
    /\ obj = "failed"
    /\ lastOp = "resizeEvent"

(***************************************************************************)
(* The automaton rule on its own.  SpecRule starts from a constructed      *)
(* GameOfLife whose seed gave any grid of up to RuleSide columns and rows, *)
(* and calls update() on it.  In this specification and the next, trace    *)
(* holds the calls made since the start.                                   *)
(***************************************************************************)
\* A constructed, detached GameOfLife on a surface of cs by rs whole cells
\* holding grid g.
GolWith(cs, rs, g) ==
    /\ kind = "gol"
    /\ obj = "live"
    /\ self = [width |-> cellSize * cs, height |-> cellSize * rs, cols |-> cs,
               rows |-> rs, grid |-> g, animationId |-> NULL]
    /\ canvas = [width |-> cellSize * cs, height |-> cellSize * rs]
    /\ env = [w |-> cellSize * cs, h |-> cellSize * rs]
    /\ pending = {}
    /\ rafSeq = 0
    /\ listeners = {}

AllGrids(cs, rs) == [0..(cs - 1) -> [0..(rs - 1) -> {0, 1}]]

InitRule ==
    /\ \E cs \in 1..RuleSide, rs \in 1..RuleSide :
         \E g \in AllGrids(cs, rs) : GolWith(cs, rs, g)
    /\ lastOp = "seed"
    /\ trace = <<>>

\* update() is called, as loop() calls it, at most n times in all.
UpdateCall(n) ==
    /\ Cardinality(UpdateAt(trace)) < n
    /\ \E stream \in FrameStreams(kind) : self' = simulate(self, kind, stream, 0)
    /\ trace' = Append(trace, Step("update", <<population(self, kind),
                                               population(self', kind)>>))
    /\ lastOp' = "update"
    /\ UNCHANGED <<kind, obj, canvas, env, pending, rafSeq, listeners>>

NextRule == UpdateCall(1)

SpecRule == InitRule /\ [][NextRule]_vars

\* The live cells among the eight toroidal neighbours of cell (i, j) of g,
\* a neighbour counted once for each of the eight directions it lies in.
LiveAround(g, cs, rs, i, j) ==
    Cardinality({d \in ((-1)..1) \X ((-1)..1) :
                   /\ d # <<0, 0>>
                   /\ g[(i + d[1]) % cs][(j + d[2]) % rs] = 1})

\* C5: after update(), every cell is what Conway's rule makes of its
\* previous state and the previous grid's eight toroidal neighbours: a dead
\* cell with exactly 3 live ones is alive, a live cell with fewer than 2 or
\* more than 3 is dead, every other cell is as it was.
C5_ConwayStep ==
    lastOp = "update" =>
        LET before == trace[Len(trace)].v[1]
            after == self.grid
        IN  /\ DOMAIN after = 0..(self.cols - 1)
            /\ \A i \in 0..(self.cols - 1) :
                 /\ DOMAIN after[i] = 0..(self.rows - 1)
                 /\ \A j \in 0..(self.rows - 1) :
                      LET n == LiveAround(before, self.cols, self.rows, i, j)
                      IN  after[i][j] =
                            IF before[i][j] = 0 /\ n = 3 THEN 1
                            ELSE IF before[i][j] = 1 /\ (n < 2 \/ n > 3) THEN 0
                            ELSE before[i][j]

\* C5 witness: on a grid of two columns, where the left and the right
\* neighbour are the same cell, update() brought a dead cell to life.
C5_Witness ==
    /\ lastOp = "update"
    /\ self.cols = 2
    /\ \E i \in 0..1, j \in 0..(self.rows - 1) :
         trace[1].v[1][i][j] = 0 /\ self.grid[i][j] = 1

(***************************************************************************)
(* The glider.  SpecGlider starts from a GameOfLife of GliderSide by       *)
(* GliderSide cells whose seed gave one glider and nothing else, and calls *)
(* update() four times.                                                    *)
(***************************************************************************)
\* patterns.glider, indexed from 0
gliderPattern == <<<<0, 1, 0>>, <<0, 0, 1>>, <<1, 1, 1>>>>

\* The grid of n by n cells that holds the glider with its corner at
\* (x, y), pattern[i][j] at column x + i and row y + j, wrapped.
GliderGrid(x, y, n) ==
    [c \in 0..(n - 1) |-> [r \in 0..(n - 1) |->
        IF \E i \in 0..2, j \in 0..2 :
             /\ gliderPattern[i + 1][j + 1] = 1
             /\ c = (x + i) % n
             /\ r = (y + j) % n
        THEN 1 ELSE 0]]

InitGlider ==
    /\ \E x \in 0..(GliderSide - 1), y \in 0..(GliderSide - 1) :
         /\ GolWith(GliderSide, GliderSide, GliderGrid(x, y, GliderSide))
         /\ trace = <<Step("seed", <<x, y>>)>>
    /\ lastOp = "seed"

NextGlider == UpdateCall(4)

SpecGlider == InitGlider /\ [][NextGlider]_vars

\* C6: four calls of update() after the glider was at (x, y) leave exactly
\* the glider at (x + 1, y + 1), wrapped.
C6_GliderTranslates ==
    Cardinality(UpdateAt(trace)) = 4 =>
        self.grid = GliderGrid(trace[1].v[1] + 1, trace[1].v[2] + 1, self.cols)

\* C6 witness: four calls were made on a glider that straddled the corner.
C6_Witness ==
    /\ Cardinality(UpdateAt(trace)) = 4
    /\ trace[1].v = <<self.cols - 1, self.rows - 1>>
    /\ trace[2].v[1][self.cols - 1][0] = 1
    /\ trace[2].v[1][1][1] = 1
    /\ self.grid[0][1] = 1

(***************************************************************************)
(* End to end.  SpecE2E is the life cycle of a GameOfLife whose container  *)
(* keeps the size it has at the start: one of the small sizes, or 160 by   *)
(* 80.  Resize events report that size, and the pointer moves between two  *)
(* points, one above and left of the canvas and one on it.                 *)
(***************************************************************************)
InitE2E ==
    /\ kind = "gol"
    /\ obj = "none"
    /\ self = DefaultSelf(kind)
    /\ canvas = [width |-> 300, height |-> 150]
    /\ env \in EnvSizes(kind) \cup {[w |-> 160, h |-> 80]}
    /\ pending = {}
    /\ rafSeq = 0
    /\ listeners = {}
    /\ lastOp = "none"
    /\ trace = <<>>

ResizeEventSame == ResizeEventTo({env})

MouseMoveEventE2E == MouseMoveEventAt({<<0 - 17, 0 - 17>>, <<20, 20>>})

NextE2E ==
    \/ Construct
    \/ Attach
    \/ Detach
    \/ Frame
    \/ ResizeEventSame
    \/ MouseMoveEventE2E

SpecE2E == InitE2E /\ [][NextE2E]_vars

\* C8: every cell of a constructed GameOfLife's grid holds 0 or 1, and every
\* index pair update() uses on it lies in [0, cols) x [0, rows); on a
\* surface of 160 by 80 the grid has 20 columns of 10 cells.
C8_CellsAndIndicesInRange ==
    (obj = "live" /\ kind = "gol") =>
        /\ \A i \in DOMAIN self.grid : \A j \in DOMAIN self.grid[i] :
             self.grid[i][j] \in {0, 1}
        /\ \A a \in updateAccesses(self.cols, self.rows) :
             /\ a[1] \in 0..(self.cols - 1)
             /\ a[2] \in 0..(self.rows - 1)
             /\ GridRead(self.grid, a[1], a[2]) # NaN
        /\ (self.width = 160 /\ self.height = 80) =>
             /\ DOMAIN self.grid = 0..19
             /\ \A i \in 0..19 : DOMAIN self.grid[i] = 0..9

\* C8 witness: on the surface of 160 by 80, attach() ran and then the host
\* ran one frame, which left live and dead cells.
C8_Witness ==
    /\ self.width = 160
    /\ self.height = 80
    /\ lastOp = "frame"
    /\ rafSeq = 2
    /\ \E i \in 0..19, j \in 0..9 : self.grid[i][j] = 1
    /\ \E i \in 0..19, j \in 0..9 : self.grid[i][j] = 0

(***************************************************************************)
(* The pointer handler.  SpecPointer starts from a constructed GameOfLife  *)
(* whose seed gave any grid of up to MaxSide columns and rows, and calls   *)
(* handleMouseMove() on it once, as the window does for a 'mousemove'.     *)
(* trace holds the call: the pointer's position, the values Math.random()  *)
(* returns and the grid the handler found.                                 *)
(***************************************************************************)
InitPointer ==
    /\ \E cs \in 1..MaxSide, rs \in 1..MaxSide :
         \E g \in AllGrids(cs, rs) : GolWith(cs, rs, g)
    /\ lastOp = "seed"
    /\ trace = <<>>

\* Pointer positions relative to the canvas: far left of and above it, left
\* of it, just outside its corner, on it, below it and right of it.
ProbePoints ==
    {<<0 - 40, 0 - 40>>, <<0 - 17, 4>>, <<0 - 1, 0 - 1>>, <<4, 4>>,
     <<9, 100>>, <<100, 0 - 9>>}

\* handleMouseMove(e) is called once.
PointerCall ==
    /\ lastOp = "seed"
    /\ \E pt \in ProbePoints, stream \in Streams :
         /\ self' = pointerMove(self, kind, pt[1], pt[2], stream)
         /\ trace' = <<Step("handleMouseMove",
                            [at |-> pt, random |-> stream,
                             before |-> population(self, kind)])>>
    /\ lastOp' = "handleMouseMove"
    /\ UNCHANGED <<kind, obj, canvas, env, pending, rafSeq, listeners>>

NextPointer == PointerCall

SpecPointer == InitPointer /\ [][NextPointer]_vars

\* The nine cells around (col, row) with true toroidal wraparound.
ToroidalCluster(col, row, cs, rs) ==
    {<<(col + i) % cs, (row + j) % rs>> : i \in (-1)..1, j \in (-1)..1}

\* C9: after handleMouseMove() with the pointer at (x, y), anywhere on or
\* off the surface, and (col, row) = (floor(x / 8), floor(y / 8)): every
\* cell that changed is one of the nine cells ((col + i) mod cols,
\* (row + j) mod rows), i, j in -1..1, and now holds 1, so that no cell was
\* set to 0 and every other cell is as it was; and each of the nine can be
\* set: when every Math.random() is above 0.3, all nine hold 1.
C9_PointerCluster ==
    lastOp = "handleMouseMove" =>
        LET call == trace[1].v
            before == call.before
            after == self.grid
            nine == ToroidalCluster(FloorDiv(call.at[1], cellSize),
                                    FloorDiv(call.at[2], cellSize),
                                    self.cols, self.rows)
        IN  /\ DOMAIN after = DOMAIN before
            /\ \A c \in DOMAIN before :
                 /\ DOMAIN after[c] = DOMAIN before[c]
                 /\ \A r \in DOMAIN before[c] :
                      after[c][r] # before[c][r] =>
                          (<<c, r>> \in nine /\ after[c][r] = 1)
            /\ (\A k \in 1..Len(call.random) : Above03(call.random[k])) =>
                   \A cell \in nine : after[cell[1]][cell[2]] = 1

(***************************************************************************)
(* Further properties of the life cycle, checked under Spec.               *)
(***************************************************************************)
\* The steps that build a grid or a population.
BuildSteps == {"resize", "createGrid"}

\* The size of the grid or population a resize() for a container of w by h
\* leaves in an object of class k.
BuiltFor(k, w, h) ==
    CASE k = "gol" -> <<CeilDiv(w, cellSize), CeilDiv(h, cellSize)>>
      [] k = "pa"  -> particleCountFor(w, h)
      [] k = "ng"  -> nodeCountFor(w, h)

\* The size of the grid or population an object holds.
BuiltSize(s, k) ==
    IF k = "gol"
    THEN <<Cardinality(DOMAIN s.grid),
           IF s.grid = <<>> THEN CeilDiv(s.height, cellSize)
           ELSE Cardinality(DOMAIN s.grid[0])>>
    ELSE Len(s.particles)

\* C11: when attach() returns, on an object whose loop ran before and that
\* is detached as detach() leaves it, also after the container changed size
\* meanwhile: width and height are the container's size, the grid or
\* population was built anew during the call, before any simulate step, and
\* has the size that goes with the container's size, the loop is running
\* and both listeners are registered.
C11_AttachReinitializes ==
    [][(lastOp' = "attach" /\ Quiescent /\ rafSeq > 0)
         => /\ self'.width = env.w
            /\ self'.height = env.h
            /\ canvas' = [width |-> env.w, height |-> env.h]
            /\ trace'[1].s \in BuildSteps
            /\ BuiltSize(self', kind) = BuiltFor(kind, env.w, env.h)
            /\ self'.animationId # NULL
            /\ pending' = {self'.animationId}
            /\ listeners' = HandledEvents]_vars

(***************************************************************************)
(* NetworkGraph over a range of surfaces.  SpecNodes is the life cycle of  *)
(* a NetworkGraph whose container takes sizes from empty to large, on both *)
(* sides of the breakpoint at 768.                                         *)
(***************************************************************************)
NodeSizes ==
    {[w |-> w, h |-> h] : w \in {0, 767, 768, 1500}, h \in {0, 400, 1000}}

InitNodes ==
    /\ kind = "ng"
    /\ obj = "none"
    /\ self = DefaultSelf(kind)
    /\ canvas = [width |-> 300, height |-> 150]
    /\ env \in NodeSizes
    /\ pending = {}
    /\ rafSeq = 0
    /\ listeners = {}
    /\ lastOp = "none"
    /\ trace = <<>>

ResizeEventNodes == ResizeEventTo(NodeSizes)

NextNodes ==
    \/ Construct
    \/ Attach
    \/ Detach
    \/ Frame
    \/ ResizeEventNodes

SpecNodes == InitNodes /\ [][NextNodes]_vars

Max(a, b) == IF a >= b THEN a ELSE b

\* C12: a constructed NetworkGraph of width w and height h has
\* max(20, min(cap, floor(w * h / divisor))) nodes, which is its
\* particleCount and lies in 20..cap, with cap 50, divisor 10000 and
\* connection distance 120 when w < 768, and cap 150, divisor 6000 and
\* connection distance 180 otherwise.
C12_NodeCount ==
    (obj = "live" /\ kind = "ng") =>
        LET mobile == self.width < 768
            cap == IF mobile THEN 50 ELSE 150
            divisor == IF mobile THEN 10000 ELSE 6000
            count == Max(20, Min(cap, (self.width * self.height) \div divisor))
        IN  /\ self.particleCount = count
            /\ Len(self.particles) = count
            /\ 20 <= count /\ count <= cap
            /\ self.connectionDistance = IF mobile THEN 120 ELSE 180

\* C12 witness: a resize event gave an attached NetworkGraph a narrow
\* surface and a count between the floor and the cap.
C12_Witness ==
    /\ kind = "ng"
    /\ lastOp = "resizeEvent"
    /\ "resize" \in StepNames(trace)
    /\ self.width = 767
    /\ Len(self.particles) = 30
    /\ self.connectionDistance = 120

(***************************************************************************)
(* ParticleAttractor over a range of surfaces.  SpecParticles is the life  *)
(* cycle of a ParticleAttractor whose container takes the small sizes of   *)
(* Spec and a large one, with room for more than 600 particles.  The       *)
(* pointer stays where the field initialiser puts it.                      *)
(***************************************************************************)
ParticleSizes == EnvSizes("pa") \cup {[w |-> 2000, h |-> 1000]}

InitParticles ==
    /\ kind = "pa"
    /\ obj = "none"
    /\ self = DefaultSelf(kind)
    /\ canvas = [width |-> 300, height |-> 150]
    /\ env \in ParticleSizes
    /\ pending = {}
    /\ rafSeq = 0
    /\ listeners = {}
    /\ lastOp = "none"
    /\ trace = <<>>

ResizeEventParticles == ResizeEventTo(ParticleSizes)

NextParticles ==
    \/ Construct
    \/ Attach
    \/ Frame
    \/ ResizeEventParticles

SpecParticles == InitParticles /\ [][NextParticles]_vars

\* C13: a constructed ParticleAttractor holds min(600, floor(width * height
\* / 2000)) particles; and an operation that does not run resize() leaves
\* the number of particles and each particle's identity (its size, which
\* only the constructor of Particle sets) as they were, so that update()
\* adds and removes none and respawns in place.
C13_ParticleCount ==
    /\ []((obj = "live" /\ kind = "pa") =>
            /\ Len(self.particles) = Min(600, (self.width * self.height) \div 2000)
            /\ self.particleCount = Len(self.particles))
    /\ [][(obj = "live" /\ kind = "pa" /\ "resize" \notin StepNames(trace'))
            => /\ Len(self'.particles) = Len(self.particles)
               /\ \A n \in 1..Len(self.particles) :
                    self'.particles[n].size = self.particles[n].size]_vars

\* C13 witness: a frame ran on a population of 600 particles and moved one.
C13_Witness ==
    /\ kind = "pa"
    /\ lastOp = "frame"
    /\ Len(self.particles) = 600
    /\ self.width = 2000
    /\ Len(trace) = 4
    /\ trace[2].v[1] # trace[2].v[2]

(***************************************************************************)
(* One particle.  SpecOrbit starts from a constructed ParticleAttractor on *)
(* a surface of 50 by 40, which has one particle, with the particle in any *)
(* of a range of positions and velocities that frames and pointer moves    *)
(* can bring it to: near the centre, on the surface, and close to the      *)
(* line 200 units outside it; and with the pointer far away, on the        *)
(* particle or elsewhere.  It calls update() up to MaxFrames times.        *)
(***************************************************************************)
\* A constructed, detached ParticleAttractor of w by h holding the
\* particles ps, with the pointer last seen at `mouse'.
PaWith(w, h, ps, mouse) ==
    /\ kind = "pa"
    /\ obj = "live"
    /\ self = [width |-> w, height |-> h, particles |-> ps,
               particleCount |-> Len(ps), mouse |-> mouse, animationId |-> NULL]
    /\ canvas = [width |-> w, height |-> h]
    /\ env = [w |-> w, h |-> h]
    /\ pending = {}
    /\ rafSeq = 0
    /\ listeners = {}

OrbitStates ==
    [x : {(0 - 199) * Unit, 25 * Unit, 30 * Unit, 40 * Unit, 249 * Unit},
     y : {(0 - 199) * Unit, 20 * Unit, 26 * Unit},
     vx : {(0 - 12) * Unit, 0, 12 * Unit},
     vy : {(0 - 12) * Unit, 0},
     size : {Unit}]

OrbitPointers ==
    {[x |-> 0 - 1000, y |-> 0 - 1000], [x |-> 30, y |-> 20], [x |-> 40, y |-> 26]}

InitOrbit ==
    /\ \E p \in OrbitStates, mouse \in OrbitPointers : PaWith(50, 40, <<p>>, mouse)
    /\ lastOp = "seed"
    /\ trace = <<>>

NextOrbit == UpdateCall(MaxFrames)

SpecOrbit == InitOrbit /\ [][NextOrbit]_vars

\* Four times the square of the distance from p to the centre of a surface
\* of w by h, in units of 1 / Unit.
CentreDistSq4(p, w, h) ==
    (2 * p.x - w * Unit) * (2 * p.x - w * Unit)
        + (2 * p.y - h * Unit) * (2 * p.y - h * Unit)

\* p lies at a distance d from the centre with
\* min(w, h) / 2 <= d < min(w, h) / 2 + 50.
OnSpawnRing(p, w, h) ==
    /\ p.x # NaN
    /\ CentreDistSq4(p, w, h) >= (Min(w, h) * Unit) * (Min(w, h) * Unit)
    /\ CentreDistSq4(p, w, h) < ((Min(w, h) + 100) * Unit) * ((Min(w, h) + 100) * Unit)

\* p is more than 200 units outside an edge of a surface of w by h.
FarOutside(p, w, h) ==
    /\ p.x # NaN
    /\ \/ p.x < (0 - 200) * Unit
       \/ p.x > (w + 200) * Unit
       \/ p.y < (0 - 200) * Unit
       \/ p.y > (h + 200) * Unit

\* Where update() moves particle p of s to, before it resets any.
MovedTo(s, p) ==
    particleMoved(p, (s.width * Unit) \div 2 - p.x, (s.height * Unit) \div 2 - p.y,
                  s.mouse.x * Unit - p.x, s.mouse.y * Unit - p.y)

\* C14: in every update(), a particle that the move takes more than 200
\* units outside an edge, and a particle that was closer than 10 to the
\* centre when the call began (where the call before left it), is reset in
\* that call: it ends the call on the ring of distances
\* [min(w, h) / 2, min(w, h) / 2 + 50) around the centre; and no particle
\* ends a call more than 200 units outside.
C14_Resets ==
    [][lastOp' = "update" =>
         \A n \in 1..Len(self.particles) :
            LET p == self.particles[n]
                q == self'.particles[n]
                met == p.x # NaN /\ p.x = self.mouse.x * Unit
                                 /\ p.y = self.mouse.y * Unit
            IN  /\ (p.x # NaN /\ ~met /\ FarOutside(MovedTo(self, p), self.width, self.height))
                      => OnSpawnRing(q, self.width, self.height)
                /\ (p.x # NaN /\ CentreDistSq4(p, self.width, self.height)
                                   < (20 * Unit) * (20 * Unit))
                      => OnSpawnRing(q, self.width, self.height)
                /\ ~FarOutside(q, self.width, self.height)]_vars

\* C14 witness: the first call left the particle closer than 10 to the
\* centre without resetting it, and the second call reset it.
C14_Witness ==
    /\ kind = "pa"
    /\ Cardinality(UpdateAt(trace)) = 2
    /\ CentreDistSq4(trace[1].v[1][1], self.width, self.height) >= (20 * Unit) * (20 * Unit)
    /\ trace[1].v[2][1].x # NaN
    /\ CentreDistSq4(trace[1].v[2][1], self.width, self.height) < (20 * Unit) * (20 * Unit)
    /\ ~OnSpawnRing(trace[1].v[2][1], self.width, self.height)
    /\ OnSpawnRing(self.particles[1], self.width, self.height)

(***************************************************************************)
(* A long run.  SpecLongRun starts from an attached, running               *)
(* ParticleAttractor on a surface of 50 by 40 whose one particle has any   *)
(* of a range of positions and velocities, slow and fast, near and far;    *)
(* the pointer stays where the field initialiser puts it, more than 200    *)
(* units from wherever the particle can be.  The host runs LongRun frames. *)
(***************************************************************************)
LongRun == 1000

LongRunStates ==
    [x : {(0 - 150) * Unit, 25 * Unit, 300 * Unit, 1400 * Unit},
     y : {(0 - 400) * Unit, 20 * Unit},
     vx : {(0 - 300) * Unit, 0, 40 * Unit},
     vy : {0, 250 * Unit},
     size : {Unit}]

InitLongRun ==
    /\ kind = "pa"
    /\ obj = "live"
    /\ \E p \in LongRunStates :
         self = [width |-> 50, height |-> 40, particles |-> <<p>>,
                 particleCount |-> 1, mouse |-> DefaultSelf("pa").mouse,
                 animationId |-> 1]
    /\ canvas = [width |-> 50, height |-> 40]
    /\ env = [w |-> 50, h |-> 40]
    /\ pending = {1}
    /\ rafSeq = 1
    /\ listeners = HandledEvents
    /\ lastOp = "attach"
    /\ trace = <<>>

NextLongRun == FrameUpTo(LongRun + 1)

SpecLongRun == InitLongRun /\ [][NextLongRun]_vars

\* The square of the speed of p, in units of 1 / Unit.
SpeedSq(p) == p.vx * p.vx + p.vy * p.vy

\* C15: with the pointer more than 200 units away, a frame leaves a
\* particle's speed no greater than the greater of its speed before and
\* 190 (where 0.95 * (v + 10) = v, 10 being the most gravity adds); so over
\* LongRun frames the speed never exceeds the greater of the initial speed
\* and 190, here at most the speed of (300, 250), and stays a number.
C15_VelocityBounded ==
    /\ [](\A n \in 1..Len(self.particles) :
            /\ self.particles[n].vx # NaN
            /\ SpeedSq(self.particles[n]) <= SpeedSq([vx |-> 300 * Unit, vy |-> 250 * Unit]))
    /\ [][lastOp' = "frame" =>
            \A n \in 1..Len(self.particles) :
               SpeedSq(self'.particles[n])
                   <= Max(SpeedSq(self.particles[n]), (190 * Unit) * (190 * Unit))]_vars

\* C15 witness: LongRun frames ran, and the particle is moving.
C15_Witness ==
    /\ kind = "pa"
    /\ lastOp = "frame"
    /\ rafSeq = LongRun + 1
    /\ self.mouse = DefaultSelf("pa").mouse
    /\ SpeedSq(self.particles[1]) > 0

(***************************************************************************)
(* NetworkGraph: draw().  The canvas calls it makes, in program order, as  *)
(* steps.  An alpha is kept exact, as the numbers it is computed from:     *)
(* [distSq, threshold, tenths] stands for                                  *)
(* (1 - sqrt(distSq) / threshold) * tenths / 10, distances in 1 / Unit.    *)
(***************************************************************************)
\* dx * dx + dy * dy for two points.
distSqBetween(p1, p2) ==
    (p1.x - p2.x) * (p1.x - p2.x) + (p1.y - p2.y) * (p1.y - p2.y)

\* Mutant of withinDistance: a distance equal to the limit counts.
withinOrAtDistance(dx, dy, limit) ==
    /\ Abs(dx) <= limit * Unit
    /\ Abs(dy) <= limit * Unit
    /\ dx * dx + dy * dy <= (limit * Unit) * (limit * Unit)

\* Math.sqrt(dx * dx + dy * dy) < limit
withinDistance(dx, dy, limit) ==
    /\ Abs(dx) < limit * Unit
    /\ Abs(dy) < limit * Unit
    /\ dx * dx + dy * dy < (limit * Unit) * (limit * Unit)

\* A colour string is held as the sequence of its characters.
HexValue ==
    ("0" :> 0) @@ ("1" :> 1) @@ ("2" :> 2) @@ ("3" :> 3) @@ ("4" :> 4) @@ ("5" :> 5)
        @@ ("6" :> 6) @@ ("7" :> 7) @@ ("8" :> 8) @@ ("9" :> 9)
        @@ ("a" :> 10) @@ ("b" :> 11) @@ ("c" :> 12) @@ ("d" :> 13) @@ ("e" :> 14)
        @@ ("f" :> 15) @@ ("A" :> 10) @@ ("B" :> 11) @@ ("C" :> 12) @@ ("D" :> 13)
        @@ ("E" :> 14) @@ ("F" :> 15)

\* hex.slice(from, to)
slice(hex, from, to) == SubSeq(hex, from + 1, Min(to, Len(hex)))

\* parseInt(chars, 16): the value of the longest prefix of hexadecimal
\* digits, NaN if that prefix is empty.
RECURSIVE parseIntFrom(_, _, _)
parseIntFrom(chars, n, acc) ==
    IF n > Len(chars) \/ chars[n] \notin DOMAIN HexValue
    THEN IF n = 1 THEN NaN ELSE acc
    ELSE parseIntFrom(chars, n + 1, acc * 16 + HexValue[chars[n]])

parseInt16(chars) == parseIntFrom(chars, 1, 0)

\* hexToRgba(hex, alpha): the channels and the alpha of the string
\* `rgba(r, g, b, alpha)' it returns.
hexToRgba(hex, alpha) ==
    [r |-> parseInt16(slice(hex, 1, 3)),
     g |-> parseInt16(slice(hex, 3, 5)),
     b |-> parseInt16(slice(hex, 5, 7)),
     alpha |-> alpha]

\* The inner loop for node i: a line to each later node j that is closer
\* than the connection distance.
pairLines(ps, cd, color, i) ==
    LET all == [j \in 1..Len(ps) |->
                  Step("line", [from |-> i, to |-> j,
                                strokeStyle |->
                                    hexToRgba(color,
                                              [distSq |-> distSqBetween(ps[i], ps[j]),
                                               threshold |-> cd * Unit,
                                               tenths |-> 5])])]
        drawn(o) == /\ o.v.to > i
                    /\ withinDistance(ps[i].x - ps[o.v.to].x,
                                      ps[i].y - ps[o.v.to].y, cd)
    IN  SelectSeq(all, drawn)

\* The line from node i to the pointer, if it is closer than the connection
\* distance + 50.
pointerLine(ps, mouse, cd, color, i) ==
    IF withinDistance(mouse.x * Unit - ps[i].x, mouse.y * Unit - ps[i].y, cd + 50)
    THEN <<Step("pointerLine",
                [from |-> i,
                 strokeStyle |->
                     hexToRgba(color,
                               [distSq |-> distSqBetween([x |-> mouse.x * Unit,
                                                          y |-> mouse.y * Unit], ps[i]),
                                threshold |-> (cd + 50) * Unit,
                                tenths |-> 8])])>>
    ELSE <<>>

\* The outer loop from node i on.
RECURSIVE connectionsFrom(_, _, _, _, _)
connectionsFrom(ps, mouse, cd, color, i) ==
    IF i > Len(ps) THEN <<>>
    ELSE pairLines(ps, cd, color, i) \o pointerLine(ps, mouse, cd, color, i)
             \o connectionsFrom(ps, mouse, cd, color, i + 1)

\* NetworkGraph.draw()
drawNodes(s) ==
    <<Step("clearRect", <<s.width, s.height>>)>>
        \o connectionsFrom(s.particles, s.mouse, s.connectionDistance, s.color, 1)
        \o [n \in 1..Len(s.particles) |-> Step("arc", [node |-> n, fillStyle |-> s.color])]


(***************************************************************************)
(* SpecRender: one call of NetworkGraph.draw() on a population of twenty   *)
(* nodes, the count resize builds for both surfaces used here.  Seventeen  *)
(* nodes are spread over the surface; the last three are placed so that    *)
(* pairs lie closer than, exactly at and beyond the connection distance.   *)
(***************************************************************************)
\* A constructed, detached NetworkGraph of w by h and of the given colour,
\* holding the nodes ps, with the pointer last seen at `mouse'.  The colour
\* is a field only draw() reads.
NgWith(w, h, ps, mouse, color) ==
    /\ kind = "ng"
    /\ obj = "live"
    /\ self = [width |-> w, height |-> h, particles |-> ps,
               particleCount |-> nodeCountFor(w, h), mouse |-> mouse,
               connectionDistance |-> connectionDistanceFor(w),
               color |-> color, animationId |-> NULL]
    /\ canvas = [width |-> w, height |-> h]
    /\ env = [w |-> w, h |-> h]
    /\ pending = {}
    /\ rafSeq = 0
    /\ listeners = {}

\* A node at rest at (x, y), in pixels.
NodeAt(x, y) == [x |-> x * Unit, y |-> y * Unit, vx |-> 0, vy |-> 0, size |-> 2 * Unit]

RenderSizes == {[w |-> 500, h |-> 400], [w |-> 800, h |-> 150]}

RenderAnchors == {NodeAt(0, 0), NodeAt(100, 5)}

\* Offsets of the nineteenth node from the eighteenth: none, one sixteenth
\* short of 120, 120 along an axis and across (72, 96), 180 along an axis
\* and across (108, 144), and far away.
RenderOffsets ==
    {<<0, 0>>, <<120 * Unit - 1, 0>>, <<120 * Unit, 0>>, <<72 * Unit, 96 * Unit>>,
     <<180 * Unit, 0>>, <<108 * Unit, 144 * Unit>>, <<390 * Unit, 140 * Unit>>}

RenderPointers == {[x |-> 0 - 1000, y |-> 0 - 1000], [x |-> 100, y |-> 50]}

\* Colours of the form #RRGGBB: the constructor's default and another.
RenderColors ==
    {<<"#", "8", "b", "5", "c", "f", "6">>, <<"#", "F", "F", "0", "0", "8", "0">>}

RenderNodes(anchor, offset, last) ==
    [n \in 1..20 |->
        IF n <= 17 THEN NodeAt((n * 129) % 500, (n * 37) % 150)
        ELSE IF n = 18 THEN anchor
        ELSE IF n = 19 THEN [anchor EXCEPT !.x = @ + offset[1], !.y = @ + offset[2]]
        ELSE last]

InitRender ==
    /\ \E size \in RenderSizes, anchor \in RenderAnchors, offset \in RenderOffsets,
          last \in {NodeAt(250, 75), NodeAt(499, 149)}, mouse \in RenderPointers,
          color \in RenderColors :
          NgWith(size.w, size.h, RenderNodes(anchor, offset, last), mouse, color)
    /\ lastOp = "resize"
    /\ trace = <<>>

\* One call of draw(): the canvas calls it makes.
DrawCall ==
    /\ lastOp # "draw"
    /\ trace' = drawNodes(self)
    /\ lastOp' = "draw"
    /\ UNCHANGED <<kind, obj, self, canvas, env, pending, rafSeq, listeners>>

NextRender == DrawCall

SpecRender == InitRender /\ [][NextRender]_vars

\* The steps of t named name.
StepsNamed(t, name) == {i \in 1..Len(t) : t[i].s = name}

\* A colour the canvas takes: rgba(r, g, b, alpha) with numbers for the
\* channels.  An assignment of any other string to strokeStyle is ignored.
ValidColor(c) == c.r \in 0..255 /\ c.g \in 0..255 /\ c.b \in 0..255

\* The alpha (1 - sqrt(distSq) / threshold) * tenths / 10 is 0.
AlphaZero(a) == a.distSq = a.threshold * a.threshold

\* Alpha a is smaller than alpha b, for two alphas of one threshold and
\* factor.
AlphaLess(a, b) ==
    /\ a.threshold = b.threshold
    /\ a.tenths = b.tenths
    /\ a.distSq > b.distSq

\* C16: a render of NetworkGraph draws, for each unordered pair of distinct
\* nodes, one line if the Euclidean distance of the two is strictly below
\* the connection distance and none otherwise, and no other pair line; the
\* line's alpha is (1 - distance / threshold) * 0.5, which is smaller for
\* the farther of two pairs, positive on every line drawn and 0 at the
\* threshold; every line, those to the pointer too, is drawn before the
\* first node circle, and every node gets one circle.
C16_RenderLines ==
    lastOp = "draw" =>
        LET ps == self.particles
            t == self.connectionDistance * Unit
            lines == StepsNamed(trace, "line")
            circles == StepsNamed(trace, "arc")
        IN  /\ \A a, b \in 1..Len(ps) :
                   a < b =>
                       Cardinality({i \in lines : {trace[i].v.from, trace[i].v.to} = {a, b}})
                           = IF distSqBetween(ps[a], ps[b]) < t * t THEN 1 ELSE 0
            /\ \A i \in lines :
                   /\ trace[i].v.from \in 1..Len(ps)
                   /\ trace[i].v.to \in 1..Len(ps)
                   /\ trace[i].v.from # trace[i].v.to
                   /\ trace[i].v.strokeStyle.alpha =
                          [distSq |-> distSqBetween(ps[trace[i].v.from], ps[trace[i].v.to]),
                           threshold |-> t, tenths |-> 5]
                   /\ AlphaLess([distSq |-> t * t, threshold |-> t, tenths |-> 5],
                                trace[i].v.strokeStyle.alpha)
                   /\ ValidColor(trace[i].v.strokeStyle)
            /\ \A i, k \in lines :
                   distSqBetween(ps[trace[i].v.from], ps[trace[i].v.to])
                       < distSqBetween(ps[trace[k].v.from], ps[trace[k].v.to])
                   => AlphaLess(trace[k].v.strokeStyle.alpha, trace[i].v.strokeStyle.alpha)
            /\ AlphaZero([distSq |-> t * t, threshold |-> t, tenths |-> 5])
            /\ \A i \in lines \cup StepsNamed(trace, "pointerLine") :
                   \A k \in circles : i < k
            /\ \A n \in 1..Len(ps) :
                   Cardinality({k \in circles : trace[k].v.node = n}) = 1

\* A render in which nodes 18 and 19 are exactly the connection distance
\* apart and not joined, two lines of different length and a pointer line
\* are drawn, and the circles follow.
C16_Witness ==
    /\ lastOp = "draw"
    /\ distSqBetween(self.particles[18], self.particles[19])
           = (self.connectionDistance * Unit) * (self.connectionDistance * Unit)
    /\ \A i \in StepsNamed(trace, "line") : {trace[i].v.from, trace[i].v.to} # {18, 19}
    /\ \E i, k \in StepsNamed(trace, "line") :
           trace[i].v.strokeStyle.alpha.distSq < trace[k].v.strokeStyle.alpha.distSq
    /\ StepsNamed(trace, "pointerLine") # {}
    /\ Cardinality(StepsNamed(trace, "arc")) = 20


\* C17: detach() on an object whose loop is not running and whose listeners
\* are not registered (constructed and never attached or started, or
\* detached already) throws nothing and changes nothing: it cancels and
\* requests no callback, adds no listener, and leaves the handle null and
\* the fields (grid or population, pointer, dimensions), the canvas and the
\* host's registrations as they were.
C17_DetachIdle ==
    [][(lastOp' = "detach" /\ self.animationId = NULL /\ listeners = {})
         => /\ StepNames(trace') = {"removeEventListener"}
            /\ obj' = "live"
            /\ self'.animationId = NULL
            /\ UNCHANGED <<self, canvas, pending, rafSeq, listeners>>]_vars

\* C17 witness: detach() ran on an object whose loop was never started, in a
\* container that has changed since the constructor ran.
C17_Witness ==
    /\ lastOp = "detach"
    /\ rafSeq = 0
    /\ StepNames(trace) = {"removeEventListener"}
    /\ <<env.w, env.h>> # <<self.width, self.height>>


(***************************************************************************)
(* SpecBounce: a NetworkGraph of 500 by 400 whose twenty nodes lie inside  *)
(* the surface, as resize leaves them, at most a few sixteenths from an    *)
(* edge and with velocities of the constructor's range; start() and then   *)
(* frames, up to BounceFrames calls of loop().                             *)
(***************************************************************************)
BounceFrames == 5

\* Distances from an edge and velocity components, in 1 / Unit.
BounceGaps == {0, 1, 2, 3, 5}
BounceSpeeds == {0 - 4, 0 - 3, 0, 3}

\* Node n of the nodes that are the same in every initial state.
BounceNode(n) ==
    [x |-> IF n % 2 = 0 THEN n % 5 ELSE 500 * Unit - 1 - (n % 5),
     y |-> IF n % 3 = 0 THEN (n * 3) % 7 ELSE 400 * Unit - 1 - ((n * 3) % 7),
     vx |-> (n % 8) - 4,
     vy |-> ((n * 5) % 8) - 4,
     size |-> 2 * Unit]

InitBounce ==
    /\ \E gx, gy \in BounceGaps, vx, vy \in BounceSpeeds, right, bottom \in BOOLEAN :
         NgWith(500, 400,
                [n \in 1..20 |->
                    IF n = 1
                    THEN [x |-> IF right THEN 500 * Unit - 1 - gx ELSE gx,
                          y |-> IF bottom THEN 400 * Unit - 1 - gy ELSE gy,
                          vx |-> IF right THEN 0 - vx ELSE vx,
                          vy |-> IF bottom THEN 0 - vy ELSE vy,
                          size |-> 2 * Unit]
                    ELSE BounceNode(n)],
                DefaultSelf("ng").mouse, <<"#", "8", "b", "5", "c", "f", "6">>)
    /\ lastOp = "resize"
    /\ trace = <<>>

NextBounce == Start \/ FrameUpTo(BounceFrames)

SpecBounce == InitBounce /\ [][NextBounce]_vars

\* p lies off a surface of w by h along x, along y.
OutsideX(p, w) == p.x < 0 \/ p.x > w * Unit
OutsideY(p, h) == p.y < 0 \/ p.y > h * Unit

\* C18 as amended: in every call of loop(), a node that was off the surface
\* along an axis is back on it along that axis and keeps its velocity
\* component; a node that leaves the surface along an axis has the
\* component inverted; a node that stays on it keeps the component.  So no
\* node is drawn off the surface along the same axis in two consecutive
\* frames, and each crossing inverts the component once.
C18_BackInsidePerAxis ==
    [][(lastOp' \in {"start", "frame"} /\ trace' # <<>>)
         => \A n \in 1..Len(self.particles) :
                LET p == self.particles[n]
                    q == self'.particles[n]
                IN  /\ Len(self'.particles) = Len(self.particles)
                    /\ OutsideX(p, self.width) => ~OutsideX(q, self.width)
                    /\ OutsideY(p, self.height) => ~OutsideY(q, self.height)
                    /\ q.vx = IF ~OutsideX(p, self.width) /\ OutsideX(q, self.width)
                              THEN 0 - p.vx ELSE p.vx
                    /\ q.vy = IF ~OutsideY(p, self.height) /\ OutsideY(q, self.height)
                              THEN 0 - p.vy ELSE p.vy]_vars

\* C18 as stated: the above, and no node is off the surface (along either
\* axis) both before and after a call of loop().
C18_NeverTwiceOutside ==
    /\ C18_BackInsidePerAxis
    /\ [][(lastOp' \in {"start", "frame"} /\ trace' # <<>>)
            => \A n \in 1..Len(self.particles) :
                   ~ /\ OutsideX(self.particles[n], self.width)
                          \/ OutsideY(self.particles[n], self.height)
                     /\ OutsideX(self'.particles[n], self.width)
                          \/ OutsideY(self'.particles[n], self.height)]_vars

\* C18 witness: a frame in which a node that was off the surface along x
\* came back along x, velocity kept, while it left the surface along y.
C18_Witness ==
    /\ lastOp = "frame"
    /\ \E n \in 1..Len(self.particles) :
           /\ OutsideX(trace[2].v[1][n], self.width)
           /\ ~OutsideX(self.particles[n], self.width)
           /\ trace[2].v[1][n].vx = self.particles[n].vx
           /\ ~OutsideY(trace[2].v[1][n], self.height)
           /\ OutsideY(self.particles[n], self.height)


\* C19: stop() on an object with both listeners registered cancels the loop
\* (handle null, no callback pending) and removes no listener; while the
\* handle is null no callback is pending, so no frame runs, and a resize
\* event still runs resize() (dimensions and grid or population for the
\* new size) and a pointer event still runs handleMouseMove() (which sets
\* the pointer of a ParticleAttractor or NetworkGraph); start() on an
\* object with no listener registered runs loop() once, leaves one callback
\* pending and registers no listener.
C19_LoopAndListenersIndependent ==
    /\ [](self.animationId = NULL => pending = {})
    /\ [][(lastOp' = "stop" /\ listeners = HandledEvents)
            => /\ self'.animationId = NULL
               /\ pending' = {}
               /\ StepNames(trace') \subseteq {"cancelAnimationFrame"}
               /\ listeners' = HandledEvents]_vars
    /\ [][(lastOp' = "resizeEvent" /\ self.animationId = NULL /\ "resize" \in listeners)
            => /\ StepNames(trace') = {"resize"}
               /\ self'.width = env'.w
               /\ self'.height = env'.h
               /\ BuiltSize(self', kind) = BuiltFor(kind, env'.w, env'.h)
               /\ UNCHANGED <<pending, rafSeq, listeners>>]_vars
    /\ [][(lastOp' = "mouseMoveEvent" /\ self.animationId = NULL /\ "mousemove" \in listeners)
            => /\ StepNames(trace') = {"handleMouseMove"}
               /\ kind # "gol" => self'.mouse = [x |-> trace'[1].v[1], y |-> trace'[1].v[2]]
               /\ UNCHANGED <<pending, rafSeq, listeners>>]_vars
    /\ [][(lastOp' = "start" /\ self.animationId = NULL /\ listeners = {})
            => /\ StepNames(trace') = {"update", "draw", "requestAnimationFrame"}
               /\ self'.animationId # NULL
               /\ pending' = {self'.animationId}
               /\ listeners' = {}]_vars

\* C19 witness: a resize event reached an object that was attached and then
\* stopped, and resize() built a population for a container that differs
\* from the one the constructor saw.
C19_Witness ==
    /\ lastOp = "resizeEvent"
    /\ StepNames(trace) = {"resize"}
    /\ self.animationId = NULL
    /\ pending = {}
    /\ listeners = HandledEvents
    /\ rafSeq > 0
    /\ self.width > 0


\* The grids or populations a resize() to w by h can leave in an object of
\* class k, taken from an object that has just been allocated.
PossibleAfterResize(k, w, h) ==
    {population(resize(DefaultSelf(k), k, w, h, stream), k) : stream \in Streams}

\* C20: a resize event that reaches an object with the resize listener
\* registered, also one for the size the container has already, sets the
\* dimensions to the container's and leaves a grid or population that is
\* one of those a resize to that size leaves in a new object, whatever the
\* object held before; the handle, the pending callbacks and the listeners
\* are as before.  And in each such state every one of those grids or
\* populations can be the outcome for every container size.
C20_ResizeRebuilds ==
    /\ [][(lastOp' = "resizeEvent" /\ "resize" \in listeners)
            => /\ StepNames(trace') = {"resize"}
               /\ self'.width = env'.w
               /\ self'.height = env'.h
               /\ population(self', kind) \in PossibleAfterResize(kind, env'.w, env'.h)
               /\ self'.animationId = self.animationId
               /\ UNCHANGED <<pending, rafSeq, listeners>>]_vars
    /\ [](("resize" \in listeners)
            => \A e \in EnvSizes(kind) :
                   \A target \in PossibleAfterResize(kind, e.w, e.h) :
                       ENABLED (ResizeEventTo({e}) /\ population(self', kind) = target))

\* C20 witness: a resize event reached an attached object whose loop was
\* running and had run MaxFrames times, and resize() left a grid or
\* population that is not empty.
C20_Witness ==
    /\ lastOp = "resizeEvent"
    /\ StepNames(trace) = {"resize"}
    /\ listeners = HandledEvents
    /\ rafSeq = MaxFrames
    /\ self.animationId # NULL
    /\ BuiltSize(self, kind) # BuiltFor(kind, 0, 0)


(***************************************************************************)
(* SpecDefaultPointer: a ParticleAttractor or a NetworkGraph to which no   *)
(* 'mousemove' is ever dispatched.  The ParticleAttractor of 50 by 40      *)
(* holds one particle, on the surface or as far off it as update() lets a  *)
(* particle stay (200 beyond an edge), moving toward or away from the      *)
(* pointer's default position; the NetworkGraph of 500 by 400 holds twenty *)
(* nodes by the edges.  start(), frames, attach() and resize events.       *)
(***************************************************************************)
PointerFrames == 3

DefaultPointerParticles ==
    [x : {(0 - 200) * Unit, 25 * Unit, 250 * Unit},
     y : {(0 - 200) * Unit, 20 * Unit, 240 * Unit},
     vx : {(0 - 12) * Unit, 0, 12 * Unit},
     vy : {(0 - 12) * Unit, 0},
     size : {Unit}]

InitDefaultPointer ==
    /\ \/ \E p \in DefaultPointerParticles :
            PaWith(50, 40, <<p>>, DefaultSelf("pa").mouse)
       \/ \E gx, gy \in {0, 3}, vx, vy \in {0 - 4, 3} :
            NgWith(500, 400,
                   [n \in 1..20 |->
                       IF n = 1
                       THEN [x |-> gx, y |-> gy, vx |-> vx, vy |-> vy, size |-> 2 * Unit]
                       ELSE BounceNode(n)],
                   DefaultSelf("ng").mouse, <<"#", "8", "b", "5", "c", "f", "6">>)
    /\ lastOp = "resize"
    /\ trace = <<>>

NextDefaultPointer ==
    \/ Start
    \/ Attach
    \/ FrameUpTo(PointerFrames)
    \/ ResizeEvent

SpecDefaultPointer == InitDefaultPointer /\ [][NextDefaultPointer]_vars

\* The point p is not closer than `limit' to the pointer.
PointerFar(p, mouse, limit) ==
    LET dx == mouse.x * Unit - p.x
        dy == mouse.y * Unit - p.y
    IN  \/ Abs(dx) >= limit * Unit
        \/ Abs(dy) >= limit * Unit
        \/ dx * dx + dy * dy >= (limit * Unit) * (limit * Unit)

\* C21: as long as no pointer-move event has been delivered, the pointer is
\* at (-1000, -1000); every particle that a simulate step of a
\* ParticleAttractor reads is 200 or more from it, so that no repulsion is
\* applied, and every node a NetworkGraph draws is the connection distance
\* + 50 or more from it, and its render has no line to the pointer.
C21_NoPointerEffectBeforeMove ==
    /\ [](obj = "live" => self.mouse = [x |-> 0 - 1000, y |-> 0 - 1000])
    /\ [](kind = "pa" =>
            \A i \in StepsNamed(trace, "update") :
                \A n \in 1..Len(trace[i].v[1]) :
                    LET p == trace[i].v[1][n]
                    IN  /\ PointerFar(p, self.mouse, 200)
                        /\ ~nearPointer(self.mouse.x * Unit - p.x, self.mouse.y * Unit - p.y))
    /\ [](kind = "ng" =>
            \A i \in StepsNamed(trace, "draw") :
                /\ trace[i].v = self.particles
                /\ \A n \in 1..Len(self.particles) :
                       PointerFar(self.particles[n], self.mouse, self.connectionDistance + 50)
                /\ StepsNamed(drawNodes(self), "pointerLine") = {})

\* C21 witness: the simulate step of a start() of a ParticleAttractor read
\* a particle 200 beyond the left and the top edge, the nearest a particle
\* comes to the pointer's default position, moving toward it.
C21_Witness ==
    /\ kind = "pa"
    /\ lastOp = "start"
    /\ \E i \in StepsNamed(trace, "update") :
           /\ trace[i].v[1][1].x = (0 - 200) * Unit
           /\ trace[i].v[1][1].y = (0 - 200) * Unit
           /\ trace[i].v[1][1].vx < 0


\* C22: attach() on an object whose loop is stopped builds the grid or
\* population, then runs exactly one update and one draw and makes one
\* request, and only then registers the two listeners; no callback of the
\* host runs in it.  When it returns, the grid or population is what that
\* update made of the one just built, and the one callback pending is the
\* one it requested.
C22_AttachRunsOneFrame ==
    [][(lastOp' = "attach" /\ self.animationId = NULL)
         => LET n == Len(trace')
                u == n - 4
            IN  /\ n \in {6, 7}
                /\ \A i \in 1..(u - 1) : trace'[i].s \in {"createGrid", "seed", "resize"}
                /\ trace'[u].s = "update"
                /\ trace'[u + 1].s = "draw"
                /\ trace'[u + 2] = Step("requestAnimationFrame", self'.animationId)
                /\ trace'[u + 3] = Step("addEventListener", "resize")
                /\ trace'[u + 4] = Step("addEventListener", "mousemove")
                /\ trace'[u].v[1] \in PossibleAfterResize(kind, self'.width, self'.height)
                /\ trace'[u].v[2] = population(self', kind)
                /\ trace'[u + 1].v = population(self', kind)
                /\ kind = "gol" =>
                       population(self', kind) = update(trace'[u].v[1], self'.cols, self'.rows)
                /\ kind = "ng" =>
                       population(self', kind)
                           = updateNodes(trace'[u].v[1], self'.width, self'.height)
                /\ self'.animationId # NULL
                /\ self'.animationId \notin pending
                /\ pending' = {self'.animationId}
                /\ rafSeq' = rafSeq + 1
                /\ listeners' = HandledEvents]_vars

\* C22 witness: attach() returned on an object whose loop had run and been
\* stopped before, with a grid or population that its one update changed.
C22_Witness ==
    /\ lastOp = "attach"
    /\ rafSeq = MaxFrames
    /\ \E i \in StepsNamed(trace, "update") :
           /\ trace[i].v[1] # trace[i].v[2]
           /\ trace[i].v[2] = population(self, kind)
    /\ pending = {self.animationId}

====
